---------------------------- MODULE Spec2Model ----------------------------
(***************************************************************************)
(* Model of src/app.py: the resume / job-description keyword matcher.      *)
(*                                                                         *)
(* Texts are TLA+ strings, read character by character with SubSeq, so the *)
(* conversions of the program (lower, strip, split, findall, join, the     *)
(* formatting of the score) are computed as the program computes them.     *)
(*                                                                         *)
(* The bytes of an uploaded file are opaque to the program: all it ever    *)
(* learns of them is their length and what PyPDF2 and python-docx make of  *)
(* them.  A file is therefore the record of those three things, and every  *)
(* combination of them is a possible file.                                 *)
(***************************************************************************)
EXTENDS Integers, Sequences, FiniteSets, TLC

VARIABLES
    pc,                   \* "ready" before a call, "done" after it
    file_bytes,           \* extract_text_from_any: its argument
    extracted,            \* extract_text_from_any: what the call produced
    resume_text,          \* compute_match_score: first argument
    jd_text,              \* compute_match_score: second argument
    match,                \* compute_match_score: what the call produced
    resume_bytes,         \* analyze_fit: first argument
    jd_bytes,             \* analyze_fit: second argument
    extra_keywords_text,  \* analyze_fit: third argument
    fit                   \* analyze_fit: what the call produced

vars == <<pc, file_bytes, extracted, resume_text, jd_text, match,
          resume_bytes, jd_bytes, extra_keywords_text, fit>>

-----------------------------------------------------------------------------
(* Bounds of the checked inputs.                                           *)

\* job-description vocabulary kw1 .. kw<MaxVocab>
MaxVocab == 17
\* words added before or after the vocabulary run of a job description
MaxExtra == 2
\* vocabulary words a resume may leave out
MaxSkip == 2
\* pages of a PDF, paragraphs of a DOCX
MaxPages == 2
MaxParagraphs == 2

-----------------------------------------------------------------------------
(* Python values.                                                          *)

\* None, and a value that is not None
None == <<>>
Some(x) == <<x>>

Char(s, i) == SubSeq(s, i, i)

Range(seq) == {seq[i] : i \in 1..Len(seq)}

Min(a, b) == IF a <= b THEN a ELSE b

\* characters str.strip() removes (the ones a TLA+ string can spell)
Whitespace == {" ", "\t", "\n", "\r", "\f"}

UpperLetters == "ABCDEFGHIJKLMNOPQRSTUVWXYZ"
LowerLetters == "abcdefghijklmnopqrstuvwxyz"
Digits == "0123456789"

\* the character class [a-z0-9] of tokenize's pattern
AlnumChars ==
    {Char(LowerLetters, i) : i \in 1..Len(LowerLetters)}
    \cup {Char(Digits, i) : i \in 1..Len(Digits)}

IsAlnum(c) == c \in AlnumChars

UpperChars == {Char(UpperLetters, i) : i \in 1..Len(UpperLetters)}

LowerOf ==
    [c \in UpperChars |->
        Char(LowerLetters,
             CHOOSE k \in 1..Len(UpperLetters) : Char(UpperLetters, k) = c)]

LowerChar(c) == IF c \in UpperChars THEN LowerOf[c] ELSE c

\* str.lower()
RECURSIVE lower(_)
lower(s) == IF s = "" THEN "" ELSE LowerChar(Char(s, 1)) \o lower(Tail(s))

\* str.strip(): leading and trailing whitespace removed
RECURSIVE lstrip(_)
lstrip(s) ==
    IF s # "" /\ Char(s, 1) \in Whitespace THEN lstrip(Tail(s)) ELSE s

RECURSIVE rstrip(_)
rstrip(s) ==
    IF s # "" /\ Char(s, Len(s)) \in Whitespace
    THEN rstrip(SubSeq(s, 1, Len(s) - 1))
    ELSE s

\* as strip, had the checks read "if text:" and not "if text.strip():"
stripM(s) == s

strip(s) == rstrip(lstrip(s))

\* sep.join(parts)
RECURSIVE join(_, _)
join(sep, parts) ==
    IF parts = <<>> THEN ""
    ELSE IF Len(parts) = 1 THEN parts[1]
    ELSE parts[1] \o sep \o join(sep, Tail(parts))

\* s.split(sep) for a one-character sep: the pieces between one separator
\* (or the start) and the next (or the end); always at least one piece
split(s, sep) ==
    LET at == {i \in 1..Len(s) : Char(s, i) = sep}
        \* where the k-th separator is; past the last one, the end of s
        Cut(k) ==
            IF k = 0 THEN 0
            ELSE IF k > Cardinality(at) THEN Len(s) + 1
            ELSE CHOOSE i \in at : Cardinality({j \in at : j < i}) = k - 1
    IN  [k \in 1..(Cardinality(at) + 1) |->
            SubSeq(s, Cut(k - 1) + 1, Cut(k) - 1)]

-----------------------------------------------------------------------------
(* SIMPLE KEYWORD TOKENIZATION                                             *)

STOPWORDS ==
    {"the", "and", "for", "with", "you", "your", "from", "that", "this", "are",
     "was", "were", "have", "has", "had", "will", "would", "shall", "can",
     "could", "may", "might", "a", "an", "in", "on", "at", "of", "to", "as",
     "by", "or", "if", "it", "its", "is", "be", "our", "we", "they", "their",
     "them", "us", "i"}

\* a token is kept when it is longer than this
MinTokenLen == 2

\* re.findall(r"[a-z0-9]+", s): the maximal runs of [a-z0-9], left to right
RECURSIVE FindRuns(_, _, _)
FindRuns(s, i, cur) ==
    IF i > Len(s) THEN (IF cur = "" THEN <<>> ELSE <<cur>>)
    ELSE IF IsAlnum(Char(s, i)) THEN FindRuns(s, i + 1, cur \o Char(s, i))
    ELSE (IF cur = "" THEN <<>> ELSE <<cur>>) \o FindRuns(s, i + 1, "")

findall(s) == FindRuns(s, 1, "")

KeepWord(w) == Len(w) > MinTokenLen /\ w \notin STOPWORDS

tokenize(text) == SelectSeq(findall(lower(text)), KeepWord)

-----------------------------------------------------------------------------
(* MATCH SCORE (PERCENT)                                                   *)

\* the keys of Counter(tokens), in insertion order: first occurrences
RECURSIVE CounterKeys(_, _)
CounterKeys(tokens, seen) ==
    IF tokens = <<>> THEN <<>>
    ELSE IF Head(tokens) \in seen THEN CounterKeys(Tail(tokens), seen)
    ELSE <<Head(tokens)>> \o CounterKeys(Tail(tokens), seen \cup {Head(tokens)})

\* Counter(tokens)[w], built as Counter builds it: one increment per token
RECURSIVE CounterGet(_, _)
CounterGet(tokens, w) ==
    IF tokens = <<>> THEN 0
    ELSE (IF Head(tokens) = w THEN 1 ELSE 0) + CounterGet(Tail(tokens), w)

\* as SumCounts, had every word counted once whatever its frequency
SumCountsM(keys, tokens) == Len(keys)

\* sum(counts[w] for w in keys)
RECURSIVE SumCounts(_, _)
SumCounts(keys, tokens) ==
    IF keys = <<>> THEN 0
    ELSE CounterGet(tokens, Head(keys)) + SumCounts(Tail(keys), tokens)

\* as InsertDesc, had the sort put a word before the earlier words of its
\* own frequency
RECURSIVE InsertDescM(_, _, _)
InsertDescM(sorted, x, tokens) ==
    IF sorted = <<>> THEN <<x>>
    ELSE IF CounterGet(tokens, Head(sorted)) > CounterGet(tokens, x)
         THEN <<Head(sorted)>> \o InsertDescM(Tail(sorted), x, tokens)
         ELSE <<x>> \o sorted

\* one step of a stable descending sort: x goes after every element whose key
\* is at least its own
RECURSIVE InsertDesc(_, _, _)
InsertDesc(sorted, x, tokens) ==
    IF sorted = <<>> THEN <<x>>
    ELSE IF CounterGet(tokens, Head(sorted)) >= CounterGet(tokens, x)
         THEN <<Head(sorted)>> \o InsertDesc(Tail(sorted), x, tokens)
         ELSE <<x>> \o sorted

\* sorted(keys, key=lambda w: jd_counts[w], reverse=True): Python's sort is
\* stable, also with reverse=True
RECURSIVE SortedDesc(_, _, _)
SortedDesc(keys, tokens, acc) ==
    IF keys = <<>> THEN acc
    ELSE SortedDesc(Tail(keys), tokens, InsertDesc(acc, Head(keys), tokens))

\* the slice [:15]
TopK == 15

top_overlapping(overlap_tokens, jd_tokens) ==
    LET s == SortedDesc(overlap_tokens, jd_tokens, <<>>)
    IN  SubSeq(s, 1, Min(TopK, Len(s)))

\* round(raw / max * 100.0, 1), in tenths of a percent.  Python rounds the
\* double to the nearest tenth, an exact half to the even tenth; the doubles
\* that are exact halves (max a multiple of 16) are computed exactly.
RoundTenths(raw, max) ==
    LET q == (1000 * raw) \div max
        r == (1000 * raw) % max
    IN  IF 2 * r > max THEN q + 1
        ELSE IF 2 * r < max THEN q
        ELSE IF q % 2 = 0 THEN q ELSE q + 1

\* compute_match_score: [score |-> tenths of a percent, keywords |-> list]
compute_match_score(r_text, j_text) ==
    LET resume_tokens == tokenize(r_text)
        jd_tokens == tokenize(j_text)
        zero == [score |-> 0, keywords |-> <<>>]
    IN  IF jd_tokens = <<>> \/ resume_tokens = <<>> THEN zero
        ELSE
        LET resume_set == Range(resume_tokens)
            jd_keys == CounterKeys(jd_tokens, {})
            InResume(w) == w \in resume_set
            overlap_tokens == SelectSeq(jd_keys, InResume)
        IN  IF overlap_tokens = <<>> THEN zero
            ELSE
            LET raw_score == SumCounts(overlap_tokens, jd_tokens)
                max_score == SumCounts(jd_keys, jd_tokens)
            IN  IF max_score = 0 THEN zero
                ELSE [score |-> RoundTenths(raw_score, max_score),
                      keywords |-> top_overlapping(overlap_tokens, jd_tokens)]

-----------------------------------------------------------------------------
(* TEXT EXTRACTION (PDF or DOCX)                                           *)

\* How a block of statements ends: it returns a value, it raises, or it runs
\* to its end and control passes to the statement after it.
Return(text) == [kind |-> "return", text |-> text]
Raise == [kind |-> "raise", text |-> ""]
Pass == [kind |-> "pass", text |-> ""]

\* what page.extract_text() does on one page
PageText(t) == [kind |-> "text", text |-> t]
PageNone == [kind |-> "none", text |-> ""]
PageRaise == [kind |-> "raise", text |-> ""]

\* try: t = page.extract_text() or ""  except Exception: t = ""
page_text(page) == IF page.kind = "text" THEN page.text ELSE ""

\* if text.strip(): return text, ""
ReturnIfText(text) == IF strip(text) # "" THEN Return(text) ELSE Pass

\* the statements inside the first try
PdfBody(bytes) ==
    IF bytes.pdf.raises THEN Raise
    ELSE LET pages == [i \in 1..Len(bytes.pdf.pages) |->
                          page_text(bytes.pdf.pages[i])]
         IN  ReturnIfText(join("\n", pages))

\* as DocxBody, had the text been returned without the check that it is
\* not blank
DocxBodyM(bytes) ==
    IF bytes.docx.raises THEN Raise
    ELSE Return(join("\n", bytes.docx.paragraphs))

\* the statements inside the second try
DocxBody(bytes) ==
    IF bytes.docx.raises THEN Raise
    ELSE ReturnIfText(join("\n", bytes.docx.paragraphs))

\* as ExceptPass, had the statements not been wrapped in try/except
ExceptPassM(outcome) == outcome

\* try: <body>  except Exception: pass
ExceptPass(outcome) == IF outcome.kind = "raise" THEN Pass ELSE outcome

PleaseUpload == "Please upload a file."
CouldNotRead ==
    "Could not read this file. Make sure it is a PDF or DOCX and that PyPDF2/python-docx are installed."

\* what a call hands back: a pair (text, error_message), or an exception
Extracted(text, error_message) ==
    [exc |-> FALSE, text |-> text, error_message |-> error_message]
ExtractRaised == [exc |-> TRUE, text |-> "", error_message |-> ""]

extract_text_from_any(file) ==
    IF file = None THEN Extracted("", PleaseUpload)
    ELSE
    LET bytes == file[1]
    IN  IF bytes.len = 0 THEN Extracted("", PleaseUpload)
        ELSE
        LET pdf == ExceptPass(PdfBody(bytes))
        IN  IF pdf.kind = "raise" THEN ExtractRaised
            ELSE IF pdf.kind = "return" THEN Extracted(pdf.text, "")
            ELSE
            LET docx == ExceptPass(DocxBody(bytes))
            IN  IF docx.kind = "raise" THEN ExtractRaised
                ELSE IF docx.kind = "return" THEN Extracted(docx.text, "")
                ELSE Extracted("", CouldNotRead)

-----------------------------------------------------------------------------
(* MAIN HANDLER                                                            *)

\* what a call hands back: a pair (score string, details string), or an
\* exception
Fit(score, details) == [exc |-> FALSE, score |-> score, details |-> details]
FitRaised == [exc |-> TRUE, score |-> "", details |-> ""]

UploadBoth == "Please upload both a resume and a job description."
UploadResume == "Please upload a resume file."
UploadJd == "Please upload a job description file."
ResumeErrorPrefix == "Resume error: "
JdErrorPrefix == "Job description error: "
NoResumeText ==
    "Could not read any text from the resume. It may be scanned or image-only."
NoJdText ==
    "Could not read any text from the job description. It may be scanned or image-only."
ScoreLinePrefix == "Estimated AI match score: "
TopHeader == "Top overlapping keywords between resume and job description:"
NoOverlapLine ==
    "No strong keyword overlap found. The resume might be too generic or not aligned with this job description."
ExtraHeader == "Additional keywords you asked to track (comma separated input):"
PresentHeader == "Present in the resume:"
MissingHeader == "Missing from the resume:"
ImportantLines ==
    <<"Important:",
      "- This is a simple keyword-based resume analyzer, not a full assessment of a candidate.",
      "- Humans are better at evaluating experience, context and potential.",
      "- Use this score as a rough signal only, never as the sole basis for hiring decisions.">>

\* str() of a float that round(.., 1) produced, given in tenths: 750 is "75.0"
FormatScore(tenths) == ToString(tenths \div 10) \o "." \o ToString(tenths % 10)

\* extra_keywords_text or ""
OrEmpty(text) == IF text = None THEN "" ELSE text[1]

\* [kw.strip().lower() for kw in text.split(",") if kw.strip()]
raw_extra_keywords(text) ==
    LET parts == split(text, ",")
        NotBlank(kw) == strip(kw) # ""
        kept == SelectSeq(parts, NotBlank)
    IN  [i \in 1..Len(kept) |-> lower(strip(kept[i]))]

\* f"- {kw}" for each kw
Bullets(kws) == [i \in 1..Len(kws) |-> "- " \o kws[i]]

details_lines(score, top_keywords, raw_extra, matched_extra, missing_extra) ==
    <<ScoreLinePrefix \o FormatScore(score) \o " %", "">>
    \o (IF top_keywords # <<>>
        THEN <<TopHeader>> \o Bullets(top_keywords)
        ELSE <<NoOverlapLine>>)
    \o (IF raw_extra # <<>>
        THEN <<"", ExtraHeader>>
             \o (IF matched_extra # <<>>
                 THEN <<PresentHeader>> \o Bullets(matched_extra) ELSE <<>>)
             \o (IF missing_extra # <<>>
                 THEN <<MissingHeader>> \o Bullets(missing_extra) ELSE <<>>)
        ELSE <<>>)
    \o <<"">> \o ImportantLines

analyze_fit(r_bytes, j_bytes, keywords_text) ==
    IF r_bytes = None /\ j_bytes = None THEN Fit("0 %", UploadBoth)
    ELSE IF r_bytes = None THEN Fit("0 %", UploadResume)
    ELSE IF j_bytes = None THEN Fit("0 %", UploadJd)
    ELSE
    LET resume == extract_text_from_any(r_bytes)
    IN  IF resume.exc THEN FitRaised
        ELSE IF resume.error_message # ""
        THEN Fit("0 %", ResumeErrorPrefix \o resume.error_message)
        ELSE
        LET jd == extract_text_from_any(j_bytes)
        IN  IF jd.exc THEN FitRaised
            ELSE IF jd.error_message # ""
            THEN Fit("0 %", JdErrorPrefix \o jd.error_message)
            ELSE IF strip(resume.text) = "" THEN Fit("0 %", NoResumeText)
            ELSE IF strip(jd.text) = "" THEN Fit("0 %", NoJdText)
            ELSE
            LET scored == compute_match_score(resume.text, jd.text)
                resume_token_set == Range(tokenize(resume.text))
                raw_extra == raw_extra_keywords(OrEmpty(keywords_text))
                InResume(kw) == kw \in resume_token_set
                NotInResume(kw) == kw \notin resume_token_set
                matched_extra == SelectSeq(raw_extra, InResume)
                missing_extra == SelectSeq(raw_extra, NotInResume)
            IN  Fit(FormatScore(scored.score) \o " %",
                    join("\n", details_lines(scored.score, scored.keywords,
                                             raw_extra, matched_extra,
                                             missing_extra)))

-----------------------------------------------------------------------------
(* The inputs the calls are checked on.                                    *)

SeqsUpTo(S, n) == UNION {[1..k -> S] : k \in 0..n}

\* a file: its length, and what each library makes of its bytes
Bytes(len, pdf, docx) == [len |-> len, pdf |-> pdf, docx |-> docx]
PdfRaises == [raises |-> TRUE, pages |-> <<>>]
PdfPages(pages) == [raises |-> FALSE, pages |-> pages]
DocxRaises == [raises |-> TRUE, paragraphs |-> <<>>]
DocxParagraphs(paragraphs) == [raises |-> FALSE, paragraphs |-> paragraphs]

EmptyFile == Some(Bytes(0, PdfRaises, DocxRaises))

PageSet == {PageRaise, PageNone, PageText(" "), PageText("Python SQL")}
ParagraphSet == {"", "\t", "Java dev"}

PdfOutcomes == {PdfRaises} \cup {PdfPages(p) : p \in SeqsUpTo(PageSet, MaxPages)}
DocxOutcomes ==
    {DocxRaises}
    \cup {DocxParagraphs(p) : p \in SeqsUpTo(ParagraphSet, MaxParagraphs)}

\* every file extract_text_from_any is checked on
Files ==
    {None, EmptyFile}
    \cup {Some(Bytes(1, pdf, docx)) : pdf \in PdfOutcomes, docx \in DocxOutcomes}

\* a PDF (python-docx rejects it) and a DOCX (PyPDF2 rejects it)
PdfFile(pages) == Some(Bytes(1, PdfPages(pages), DocxRaises))
DocxFile(paragraphs) == Some(Bytes(1, PdfRaises, DocxParagraphs(paragraphs)))
\* bytes neither library can read
Garbage == Some(Bytes(1, PdfRaises, DocxRaises))

ResumeFiles ==
    {None, EmptyFile, Garbage,
     PdfFile(<<PageText("Expert in AI, C++ and SQL."),
               PageText("Machine Learning with Python")>>),
     PdfFile(<<PageText("Go developer")>>),
     PdfFile(<<PageText(" "), PageRaise, PageNone>>),
     DocxFile(<<"MySQL admin", "", "the data-base of R">>),
     DocxFile(<<"\t", "">>),
     Some(Bytes(1, PdfPages(<<PageText("\n")>>), DocxParagraphs(<<"Python">>)))}

JdFiles ==
    {None, EmptyFile, Garbage,
     PdfFile(<<PageText("Python, SQL and AI. python for the data team")>>),
     PdfFile(<<PageNone, PageText("\r\n")>>),
     DocxFile(<<"Go", "C++">>),
     DocxFile(<<"sql">>),
     DocxFile(<<" ">>)}

KeywordTexts ==
    {None, Some(""), Some(" , "), Some("sql"), Some(" SQL , ai"),
     Some("python,,go "), Some("machine learning, c++"), Some("Java,the,data")}

\* kw<a> kw<a+1> .. kw<b>, upper- or lower-cased; empty when b < a
RECURSIVE VocabRun(_, _, _)
VocabRun(prefix, a, b) ==
    IF b < a THEN <<>>
    ELSE <<prefix \o ToString(a)>> \o VocabRun(prefix, a + 1, b)

ExtraWords == {"KW2", "kw" \o ToString(MaxVocab), "the"}

\* job descriptions: extra words, the run kw1 .. kw<n>, extra words
JdTexts ==
    {join(" ", pre \o VocabRun("kw", 1, n) \o post) :
        n \in 0..MaxVocab,
        pre \in SeqsUpTo(ExtraWords, 1),
        post \in SeqsUpTo(ExtraWords, MaxExtra - 1)}

\* resumes: the run KW<a> .. KW<MaxVocab>, then words tokenize drops
ResumeTexts ==
    {join("\n", VocabRun("KW", a, MaxVocab) \o <<"Go, AI & the IT.">>) :
        a \in 1..MaxSkip + 1}
    \cup {"", "Go, AI & the IT.", "Java developer", "kw1"}

-----------------------------------------------------------------------------
(* The calls.                                                              *)

idle == "idle"

\* extract_text_from_any(file_bytes)
InitExtract ==
    /\ pc = "ready"
    /\ file_bytes \in Files
    /\ extracted = idle
    /\ resume_text = idle /\ jd_text = idle /\ match = idle
    /\ resume_bytes = idle /\ jd_bytes = idle /\ extra_keywords_text = idle
    /\ fit = idle

CallExtract ==
    /\ pc = "ready"
    /\ pc' = "done"
    /\ extracted' = extract_text_from_any(file_bytes)
    /\ UNCHANGED <<file_bytes, resume_text, jd_text, match, resume_bytes,
                   jd_bytes, extra_keywords_text, fit>>

SpecExtract == InitExtract /\ [][CallExtract]_vars

\* compute_match_score(resume_text, jd_text)
InitScore ==
    /\ pc = "ready"
    /\ resume_text \in ResumeTexts
    /\ jd_text \in JdTexts
    /\ match = idle
    /\ file_bytes = idle /\ extracted = idle
    /\ resume_bytes = idle /\ jd_bytes = idle /\ extra_keywords_text = idle
    /\ fit = idle

CallScore ==
    /\ pc = "ready"
    /\ pc' = "done"
    /\ match' = compute_match_score(resume_text, jd_text)
    /\ UNCHANGED <<file_bytes, extracted, resume_text, jd_text, resume_bytes,
                   jd_bytes, extra_keywords_text, fit>>

SpecScore == InitScore /\ [][CallScore]_vars

\* analyze_fit(resume_bytes, jd_bytes, extra_keywords_text): one click of the
\* Analyze button.  The handler keeps nothing between clicks, so one click
\* on every input is every behaviour it has.
Init ==
    /\ pc = "ready"
    /\ resume_bytes = idle /\ jd_bytes = idle /\ extra_keywords_text = idle
    /\ fit = idle
    /\ file_bytes = idle /\ extracted = idle
    /\ resume_text = idle /\ jd_text = idle /\ match = idle

Analyze ==
    \E r \in ResumeFiles, j \in JdFiles, k \in KeywordTexts :
        /\ pc = "ready"
        /\ resume_bytes' = r
        /\ jd_bytes' = j
        /\ extra_keywords_text' = k
        /\ fit' = analyze_fit(r, j, k)
        /\ pc' = "done"
        /\ UNCHANGED <<file_bytes, extracted, resume_text, jd_text, match>>

Next == Analyze

Spec == Init /\ [][Next]_vars

-----------------------------------------------------------------------------
(* What the claims are stated in: read off the inputs and the outputs,     *)
(* without the operators above where a claim is about what they compute.   *)

\* no character but whitespace (the empty text included)
IsBlankText(t) == \A i \in 1..Len(t) : Char(t, i) \in Whitespace

\* whitespace-separated words of a text
WordCount(t) ==
    Cardinality({i \in 1..Len(t) :
                    /\ Char(t, i) \notin Whitespace
                    /\ (i = 1 \/ Char(t, i - 1) \in Whitespace)})

\* a library reads the bytes and finds text that is not blank
PdfYieldsText(bytes) ==
    /\ ~bytes.pdf.raises
    /\ \E i \in 1..Len(bytes.pdf.pages) :
          /\ bytes.pdf.pages[i].kind = "text"
          /\ ~IsBlankText(bytes.pdf.pages[i].text)

DocxYieldsText(bytes) ==
    /\ ~bytes.docx.raises
    /\ \E i \in 1..Len(bytes.docx.paragraphs) :
          ~IsBlankText(bytes.docx.paragraphs[i])

\* the file is missing or empty, or neither library finds text in it
NoReadableText(file) ==
    \/ file = None
    \/ file[1].len = 0
    \/ (~PdfYieldsText(file[1]) /\ ~DocxYieldsText(file[1]))

ErrorDetails ==
    {UploadBoth, UploadResume, UploadJd, NoResumeText, NoJdText,
     ResumeErrorPrefix \o PleaseUpload, ResumeErrorPrefix \o CouldNotRead,
     JdErrorPrefix \o PleaseUpload, JdErrorPrefix \o CouldNotRead}

\* the "unreadable" result: the score "0 %" and one line saying what is wrong
IsUnreadable(result) ==
    ~result.exc /\ result.score = "0 %" /\ result.details \in ErrorDetails

StartsWith(s, prefix) ==
    Len(s) >= Len(prefix) /\ SubSeq(s, 1, Len(prefix)) = prefix

\* a normal analysis: a computed score and the keyword report
IsReport(result) ==
    /\ ~result.exc
    /\ \E t \in 0..1000 :
          /\ result.score = FormatScore(t) \o " %"
          /\ StartsWith(result.details,
                        ScoreLinePrefix \o FormatScore(t) \o " %\n")

\* the text analyze_fit reads from a file ("" when it reads none)
TextOf(file) == extract_text_from_any(file).text

-----------------------------------------------------------------------------
-----------------------------------------------------------------------------
\* C2: analyze_fit never raises: on every input it returns a pair of a score
\* string ("0 %" or a percentage with one decimal) and a details string.
C2_NeverRaises ==
    pc = "done" =>
        /\ ~fit.exc
        /\ \/ fit.score = "0 %"
           \/ \E t \in 0..1000 : fit.score = FormatScore(t) \o " %"
        /\ fit.details # ""

\* both libraries raise on the resume and the keywords text is None: the
\* failure is reported in the details
C2_Witness ==
    /\ pc = "done"
    /\ resume_bytes # None
    /\ resume_bytes[1].len > 0
    /\ resume_bytes[1].pdf.raises
    /\ resume_bytes[1].docx.raises
    /\ extra_keywords_text = None
    /\ ~fit.exc
    /\ fit.details = ResumeErrorPrefix \o CouldNotRead

-----------------------------------------------------------------------------
\* C5: extract_text_from_any returns (text, error_message) with exactly one
\* of the two non-empty: on failure (no file, an empty file, or neither
\* library finds non-blank text) text is "" and error_message is not; on
\* success error_message is "" and text has a non-whitespace character.
C5_ExactlyOneComponent ==
    pc = "done" =>
        /\ ~extracted.exc
        /\ (extracted.text = "") # (extracted.error_message = "")
        /\ IF NoReadableText(file_bytes)
           THEN extracted.text = "" /\ extracted.error_message # ""
           ELSE extracted.error_message = "" /\ ~IsBlankText(extracted.text)

\* PyPDF2 reads the file and finds only blank text, python-docx finds text
C5_Witness ==
    /\ pc = "done"
    /\ file_bytes # None
    /\ ~file_bytes[1].pdf.raises
    /\ file_bytes[1].pdf.pages # <<>>
    /\ ~PdfYieldsText(file_bytes[1])
    /\ DocxYieldsText(file_bytes[1])
    /\ extracted.error_message = ""
    /\ ~IsBlankText(extracted.text)

-----------------------------------------------------------------------------
(* compute_match_score's result against its arguments' token lists        *)

\* the positions of the job description's tokens that occur in the resume:
\* as many as the job-description frequencies of the shared tokens add up to
SharedPositions(resume, jd) ==
    {i \in 1..Len(jd) : jd[i] \in Range(resume)}

SharedTokens(resume, jd) == Range(jd) \cap Range(resume)

\* w's frequency in a token list, and the place of its first occurrence
Frequency(tokens, w) == Cardinality({i \in 1..Len(tokens) : tokens[i] = w})

FirstAt(tokens, w) ==
    CHOOSE i \in 1..Len(tokens) :
        tokens[i] = w /\ \A j \in 1..(i - 1) : tokens[j] # w

Abs(x) == IF x < 0 THEN -x ELSE x

\* C6: with both token lists non-empty and a shared token, the score is
\* (sum of the job-description frequencies of the shared tokens) / (number
\* of job-description tokens) * 100 rounded to the nearest tenth; otherwise
\* the result is (0.0, []).
C6_ScoreIsSharedFrequency ==
    pc = "done" =>
        LET resume == tokenize(resume_text)
            jd == tokenize(jd_text)
            shared == Cardinality(SharedPositions(resume, jd))
        IN  IF resume = <<>> \/ jd = <<>> \/ shared = 0
            THEN match = [score |-> 0, keywords |-> <<>>]
            ELSE 2 * Abs(match.score * Len(jd) - 1000 * shared) <= Len(jd)

\* a shared token that the job description repeats, one it has once, a
\* job-description token the resume lacks, and a score with a decimal
C6_Witness ==
    /\ pc = "done"
    /\ LET resume == tokenize(resume_text)
           jd == tokenize(jd_text)
       IN  /\ \E w \in SharedTokens(resume, jd) : Frequency(jd, w) >= 2
           /\ \E w \in SharedTokens(resume, jd) : Frequency(jd, w) = 1
           /\ Range(jd) \ Range(resume) # {}
    /\ match.score > 0
    /\ match.score < 1000
    /\ match.score % 10 # 0

-----------------------------------------------------------------------------
\* C8: the keyword list holds only shared tokens, none twice, at most 15 of
\* them, in order of non-increasing job-description frequency with equal
\* frequencies in order of first occurrence in the job description, and no
\* shared token left out is more frequent than one in the list.
C8_TopKeywordsRanked ==
    pc = "done" =>
        LET K == match.keywords
            jd == tokenize(jd_text)
            shared == SharedTokens(tokenize(resume_text), jd)
            freq == [w \in shared |-> Frequency(jd, w)]
            first == [w \in shared |-> FirstAt(jd, w)]
        IN  /\ Range(K) \subseteq shared
            /\ \A i, j \in 1..Len(K) : i < j => K[i] # K[j]
            /\ Len(K) <= 15
            /\ \A i, j \in 1..Len(K) :
                  i < j =>
                    \/ freq[K[i]] > freq[K[j]]
                    \/ freq[K[i]] = freq[K[j]] /\ first[K[i]] < first[K[j]]
            /\ \A w \in shared \ Range(K) :
                  \A i \in 1..Len(K) : freq[w] <= freq[K[i]]

\* more than 15 shared tokens, the list cut to 15, a token moved to the front
\* by its frequency past ones that occur earlier, and ties after it
C8_Witness ==
    /\ pc = "done"
    /\ Len(match.keywords) = 15
    /\ LET K == match.keywords
           jd == tokenize(jd_text)
       IN  /\ Cardinality(SharedTokens(tokenize(resume_text), jd)) > 15
           /\ Frequency(jd, K[1]) > Frequency(jd, K[2])
           /\ FirstAt(jd, K[1]) > FirstAt(jd, K[2])
           /\ Frequency(jd, K[2]) = Frequency(jd, K[3])

-----------------------------------------------------------------------------
(* The two keyword lists, read back from the details string                *)

DetailLines(result) == split(result.details, "\n")

\* the "- kw" lines right after the header line, without the "- "
RECURSIVE BulletsFrom(_, _)
BulletsFrom(lines, i) ==
    IF i <= Len(lines) /\ StartsWith(lines[i], "- ")
    THEN <<SubSeq(lines[i], 3, Len(lines[i]))>> \o BulletsFrom(lines, i + 1)
    ELSE <<>>

ListedUnder(header, lines) ==
    IF \E i \in 1..Len(lines) : lines[i] = header
    THEN BulletsFrom(lines, 1 + CHOOSE i \in 1..Len(lines) : lines[i] = header)
    ELSE <<>>

\* the keyword stands in the text as a word of its own, in any letter case
PresentInText(kw, text) ==
    LET t == lower(text)
    IN  \E i \in 1..(Len(t) - Len(kw) + 1) :
          /\ SubSeq(t, i, i + Len(kw) - 1) = kw
          /\ (i = 1 \/ ~IsAlnum(Char(t, i - 1)))
          /\ (i + Len(kw) > Len(t) \/ ~IsAlnum(Char(t, i + Len(kw))))

\* C7: every keyword entered (comma-separated, trimmed, lower-cased, blanks
\* dropped) is listed under "Present in the resume:" when it is present in
\* the resume's text and under "Missing from the resume:" otherwise, each in
\* exactly one list, in input order.
C7_KeywordsListedByPresence ==
    (pc = "done" /\ IsReport(fit)) =>
        LET entered == raw_extra_keywords(OrEmpty(extra_keywords_text))
            text == TextOf(resume_bytes)
            Present(kw) == PresentInText(kw, text)
            Absent(kw) == ~PresentInText(kw, text)
            lines == DetailLines(fit)
        IN  /\ ListedUnder(PresentHeader, lines) = SelectSeq(entered, Present)
            /\ ListedUnder(MissingHeader, lines) = SelectSeq(entered, Absent)

=============================================================================
